---- MODULE Spec2Model ----
(***************************************************************************)
(* Model of the sale-commit core of src/pos.py: the in-memory cart of a    *)
(* terminal (ModernPOSApp), the payment dialog, DataManager.save_sale run  *)
(* statement by statement against an SQLite database, the dialogs that     *)
(* write products.stock and products.price, the discount entry and the tax *)
(* setting read by update_totals, and the restore of a backup.             *)
(*                                                                         *)
(* Money is kept in integer cents.  Intermediate results of the calculator *)
(* are kept in units of 1/Scale cent so that percentages are exact; the    *)
(* "%.2f" formatting of a displayed amount rounds to whole cents.          *)
(*                                                                         *)
(* The database is the committed state `db'; the connection that has an    *)
(* open write transaction works on the private copy `tx' and holds `lock'. *)
(* Readers (and every other connection) only ever see `db'.                *)
(***************************************************************************)
EXTENDS Integers, Sequences, FiniteSets, TLC

VARIABLES db, tx, lock, commits, cart, discount_var, tax_percent, selected_customer,
          totals, pc, pay, sv

vars == <<db, tx, lock, commits, cart, discount_var, tax_percent, selected_customer,
          totals, pc, pay, sv>>

(* ---------------------------- bounds ----------------------------------- *)
MaxStock == 2
MaxQty == 2
MaxSales == 1
MaxClock == 1
NumRandoms == 1
MaxTextLen == 4
MaxAmount == 100
MaxHeld == 1
MaxHeldSeq == 2

(* ------------------------- program constants --------------------------- *)
\* random.randint(1000, 9999): the smallest suffix; always four digits
RandomLow == 1000
\* f"R{timestamp}{random_part}": the suffix occupies four decimal digits
SuffixWidth == 10000
\* a price edit in the product form: 0.25 more
PriceStep == 25
\* sample_products: Headphones 29.99
HeadphonesPrice == 2999
\* amounts are computed in 1/Scale cent, displayed in cents
Scale == 10000

\* the application instances that may share one database file
Terminals == {1, 2}
\* rows 1 and 2 of sample_products (Water 1.50, Soda 2.00), prices in cents
Products == {1, 2}
Price == <<150, 200>>
\* their names
Name == <<"Water", "Soda">>
\* the customers table; self.selected_customer = None is NoCustomer
Customers == {1}
NoCustomer == 0

Randoms == RandomLow .. (RandomLow + NumRandoms - 1)

\* A text is the sequence of its characters.
\* "0", the initial value of discount_var and the one new_sale sets
DiscountZero == <<"0">>
\* "5%", the text apply_quick_discount sets
QuickDiscount == <<"5", "%">>
\* the texts the operator of a terminal types into the discount entry
DiscountTexts == {DiscountZero, QuickDiscount, <<"5">>}
\* the tax percentages the settings dialog is given
TaxPercents == {0, 5}
\* amounts typed into the payment dialog, relative to the amount due
PaidDeltas == {-100, 0, 100}

(* ------------------------------ helpers -------------------------------- *)
RECURSIVE SumSeq(_)
SumSeq(s) == IF s = <<>> THEN 0 ELSE Head(s) + SumSeq(Tail(s))

\* a * b / c rounded down, without forming a * b (c > 0)
MulDiv(a, b, c) == (a \div c) * b + ((a % c) * b) \div c

RemoveAt(s, i) == [j \in 1 .. (Len(s) - 1) |-> IF j < i THEN s[j] ELSE s[j + 1]]

\* f"{x:.2f}" followed by float(): x in 1/Scale cent to whole cents.  An exact
\* tie is decided by the binary representation of the float, either way.
FormatCents(x) ==
    LET lo == x \div Scale
        r == x % Scale
    IN  IF 2 * r < Scale THEN {lo}
        ELSE IF 2 * r > Scale THEN {lo + 1}
        ELSE {lo, lo + 1}

(* ------------------------------ float() -------------------------------- *)
\* A float is a number in units of 1/Scale, or NaN.
Num(v) == [nan |-> FALSE, error |-> FALSE, val |-> v]
NaN == [nan |-> TRUE, error |-> FALSE, val |-> 0]
\* float(s) raised ValueError
NotAFloat == [nan |-> FALSE, error |-> TRUE, val |-> 0]

DigitChars == {"0", "1", "5"}
DigitValue(ch) == IF ch = "0" THEN 0 ELSE IF ch = "1" THEN 1 ELSE 5

RECURSIVE Pow10(_)
Pow10(n) == IF n = 0 THEN 1 ELSE 10 * Pow10(n - 1)

\* the value of a (possibly empty) string of digits
RECURSIVE IntOf(_)
IntOf(s) ==
    IF s = <<>> THEN 0
    ELSE 10 * IntOf(SubSeq(s, 1, Len(s) - 1)) + DigitValue(s[Len(s)])

IsDigits(s) == \A i \in 1 .. Len(s) : s[i] \in DigitChars

\* float() of a text without sign: "nan", or digits with at most one point
\* and at least one digit ("5", "5.", ".5", "1.5")
UnsignedFloat(s) ==
    IF s = <<"n", "a", "n">> THEN NaN
    ELSE LET dots == {i \in 1 .. Len(s) : s[i] = "."}
             dot == IF dots = {} THEN Len(s) + 1 ELSE CHOOSE i \in dots : TRUE
             ip == SubSeq(s, 1, dot - 1)
             fp == SubSeq(s, dot + 1, Len(s))
         IN  IF \/ Cardinality(dots) > 1
                \/ ~IsDigits(ip) \/ ~IsDigits(fp)
                \/ Len(ip) + Len(fp) = 0
                \/ Pow10(Len(fp)) > Scale
             THEN NotAFloat
             ELSE Num(IntOf(ip) * Scale + IntOf(fp) * (Scale \div Pow10(Len(fp))))

\* float(s) of Python for the texts over the characters of the model: an
\* optional sign, then a decimal number or "nan"
float(s) ==
    IF s # <<>> /\ Head(s) = "-"
    THEN LET u == UnsignedFloat(Tail(s))
         IN  IF u.error \/ u.nan THEN u ELSE Num(-u.val)
    ELSE UnsignedFloat(s)

(* --------------------------- the calculator ---------------------------- *)
\* a subtotal that ignores the quantities
Subtotal_IgnoreQty(c) == SumSeq([i \in 1 .. Len(c) |-> c[i].price]) * Scale
\* sum(item['price'] * item['qty'] for item in self.cart), in 1/Scale cent
Subtotal(c) == SumSeq([i \in 1 .. Len(c) |-> c[i].price * c[i].qty]) * Scale

\* parse_discount: the discount as a float in 1/Scale cent.  A comparison
\* with NaN is false, so NaN passes both range checks.
parse_discount(discount_text, subtotal) ==
    IF discount_text = <<>> THEN Num(0)
    ELSE IF discount_text[Len(discount_text)] = "%"
    THEN LET percentage == float(SubSeq(discount_text, 1, Len(discount_text) - 1))
         IN  IF percentage.error THEN Num(0)
             ELSE IF percentage.nan THEN NaN
             ELSE IF percentage.val < 0 \/ percentage.val > 100 * Scale THEN Num(0)
             ELSE Num(MulDiv(percentage.val, subtotal \div Scale, 100))
    ELSE LET amount == float(discount_text)
         IN  IF amount.error THEN Num(0)
             ELSE IF amount.nan THEN NaN
             ELSE IF amount.val < 0 THEN Num(0)
             ELSE Num(amount.val * 100)

\* the four displayed amounts after update_totals, as the set of possible
\* roundings.  With a NaN discount the discount, the tax and the total are
\* displayed as "nan" (field nan; the three amounts are then not numbers).
update_totals(c, discount_text, taxp) ==
    LET subtotal == Subtotal(c)
        discount_amount == parse_discount(discount_text, subtotal)
        tax_amount == MulDiv(subtotal - discount_amount.val, taxp, 100)
        total == subtotal - discount_amount.val + tax_amount
    IN  IF discount_amount.nan
        THEN {[subtotal |-> s, discount |-> 0, tax |-> 0, total |-> 0, nan |-> TRUE] :
                s \in FormatCents(subtotal)}
        ELSE {[subtotal |-> s, discount |-> d, tax |-> x, total |-> g, nan |-> FALSE] :
                s \in FormatCents(subtotal), d \in FormatCents(discount_amount.val),
                x \in FormatCents(tax_amount), g \in FormatCents(total)}

(* ------------------------------ records -------------------------------- *)
\* the settings rows init_db writes
DefaultSettings == [tax_percent |-> <<"0", ".", "0">>, cashier_name |-> "Admin"]
\* a database file without sales: products, settings and the empty tables
\* (held_seq is the AUTOINCREMENT counter of held_carts)
EmptyDb(stock) ==
    [stock |-> stock, price |-> Price, name |-> Name,
     is_active |-> [p \in Products |-> TRUE], settings |-> DefaultSettings,
     held_carts |-> <<>>, held_seq |-> 0, sales |-> <<>>, sale_items |-> <<>>]
NoTx == EmptyDb([p \in Products |-> 0])
NoPay == [total |-> 0, subtotal |-> 0, discount |-> 0, tax |-> 0, nan |-> FALSE]
NoResult == [status |-> "None", kind |-> "", product |-> 0, available |-> 0,
             requested |-> 0, sale_id |-> 0]
NoFrame == [receipt_number |-> 0, customer_id |-> NoCustomer, paid |-> 0, i |-> 0,
            db0 |-> NoTx, cart0 |-> <<>>,
            attempts |-> 0, failed_at |-> "", result |-> NoResult, prev |-> NoResult]

ZeroTotals == [subtotal |-> 0, discount |-> 0, tax |-> 0, total |-> 0, nan |-> FALSE]

\* The database file outlives the application.  It is either fresh or holds
\* the sale an earlier session left: one unit of product 1, paid exactly, in
\* second 0 with the suffix RandomLow.
FreshDb == EmptyDb([p \in Products |-> MaxStock])
EarlierDb ==
    [EmptyDb([p \in Products |-> IF p = 1 THEN MaxStock - 1 ELSE MaxStock]) EXCEPT
       !.sales = <<[id |-> 1, receipt_number |-> RandomLow, customer_id |-> NoCustomer,
                    subtotal |-> Price[1], discount |-> 0, tax |-> 0, total |-> Price[1],
                    paid |-> Price[1], change_amount |-> 0]>>,
       !.sale_items = <<[sale_id |-> 1, product_id |-> 1, quantity |-> 1,
                         unit_price |-> Price[1], total_price |-> Price[1]]>>]

Init ==
    /\ db \in {FreshDb, EarlierDb}
    /\ tx = NoTx
    /\ lock = 0
    /\ commits = 0
    /\ cart = [t \in Terminals |-> <<>>]
    /\ discount_var = [t \in Terminals |-> DiscountZero]
    /\ tax_percent = [t \in Terminals |-> 0]
    /\ selected_customer = [t \in Terminals |-> NoCustomer]
    /\ totals = [t \in Terminals |-> ZeroTotals]
    /\ pc = [t \in Terminals |-> "main"]
    /\ pay = [t \in Terminals |-> NoPay]
    /\ sv = [t \in Terminals |-> NoFrame]

(* --------------------------- cart operations --------------------------- *)
\* a lookup that never finds the product
IndexOf_NotFound(c, id) == 0
\* the index of the cart line holding product id, or 0
IndexOf(c, id) ==
    IF \E i \in 1 .. Len(c) : c[i].id = id
    THEN CHOOSE i \in 1 .. Len(c) : c[i].id = id
    ELSE 0

\* an add_to_cart that increments whatever the stock
CartAfterAdd_IgnoreStock(c, product) ==
    IF product.stock <= 0 THEN c
    ELSE IF IndexOf(c, product.id) # 0
    THEN [c EXCEPT ![IndexOf(c, product.id)].qty = @ + 1]
    ELSE Append(c, [id |-> product.id, name |-> product.name, price |-> product.price,
                    qty |-> 1])
\* the cart after ModernPOSApp.add_to_cart(product), product a products row
\* (from a product card or a barcode lookup) carrying id, price and stock
CartAfterAdd(c, product) ==
    IF product.stock <= 0 THEN c
    ELSE IF IndexOf(c, product.id) # 0
    THEN LET i == IndexOf(c, product.id)
         IN  IF c[i].qty < product.stock
             THEN [c EXCEPT ![i].qty = c[i].qty + 1]
             ELSE c
    ELSE Append(c, [id |-> product.id, name |-> product.name, price |-> product.price,
                    qty |-> 1])

\* refresh_cart: redraws the cart and calls update_totals
RefreshCart(t, c) ==
    /\ cart' = [cart EXCEPT ![t] = c]
    /\ \E tt \in update_totals(c, discount_var[t], tax_percent[t]) :
          totals' = [totals EXCEPT ![t] = tt]

\* The key bindings of bind_shortcuts and bind_barcode_scanner are made with
\* bind_all, so they also fire while the payment dialog holds the grab.
\* The model stops the terminals once MaxSales sales have been committed.
Open == commits < MaxSales
AtMain(t) == pc[t] = "main" /\ Open
AtKeyboard(t) == pc[t] \in {"main", "paying", "paying_quick", "editing"} /\ Open

add_to_cart(t, p, s) ==
    /\ AtKeyboard(t)
    /\ LET product == [id |-> p, name |-> db.name[p], price |-> db.price[p], stock |-> s]
           c == CartAfterAdd(cart[t], product)
       IN  /\ ~(product.stock <= 0)
           /\ \A i \in 1 .. Len(c) : c[i].qty <= MaxQty
           /\ RefreshCart(t, c)
    /\ UNCHANGED <<db, tx, lock, commits, discount_var, tax_percent,
                   selected_customer, pc, pay, sv>>

\* edit_cart_item with the result of QuantityEditDialog: 0 is the remove
\* signal, save_quantity only returns quantities > 0
edit_cart_item(t, index, result) ==
    /\ AtMain(t)
    /\ index \in 1 .. Len(cart[t])
    /\ result >= 0
    /\ LET c == IF result = 0 THEN RemoveAt(cart[t], index)
                ELSE [cart[t] EXCEPT ![index].qty = result]
       IN  /\ c # cart[t]
           /\ RefreshCart(t, c)
    /\ UNCHANGED <<db, tx, lock, commits, discount_var, tax_percent,
                   selected_customer, pc, pay, sv>>

remove_cart_item(t, index) ==
    /\ AtKeyboard(t)
    /\ index \in 1 .. Len(cart[t])
    /\ RefreshCart(t, RemoveAt(cart[t], index))
    /\ UNCHANGED <<db, tx, lock, commits, discount_var, tax_percent,
                   selected_customer, pc, pay, sv>>

clear_cart(t) ==
    /\ AtKeyboard(t)
    /\ cart[t] # <<>>
    /\ RefreshCart(t, <<>>)
    /\ UNCHANGED <<db, tx, lock, commits, discount_var, tax_percent,
                   selected_customer, pc, pay, sv>>

\* new_sale: empties the cart, resets the discount text, refreshes
NewSaleEffect(t) ==
    /\ cart' = [cart EXCEPT ![t] = <<>>]
    /\ discount_var' = [discount_var EXCEPT ![t] = DiscountZero]
    /\ selected_customer' = [selected_customer EXCEPT ![t] = NoCustomer]
    /\ \E tt \in update_totals(<<>>, DiscountZero, tax_percent[t]) :
          totals' = [totals EXCEPT ![t] = tt]

new_sale(t) ==
    /\ AtKeyboard(t)
    /\ cart[t] # <<>> \/ discount_var[t] # DiscountZero \/ selected_customer[t] # NoCustomer
    /\ NewSaleEffect(t)
    /\ UNCHANGED <<db, tx, lock, commits, tax_percent, pc, pay, sv>>

(* ------------------------ discount and tax inputs ---------------------- *)
\* a text typed into the discount entry: discount_var has no trace, so the
\* displayed amounts stay as they are until the next refresh_cart
set_discount(t, text) ==
    /\ AtMain(t)
    /\ text # discount_var[t]
    /\ discount_var' = [discount_var EXCEPT ![t] = text]
    /\ UNCHANGED <<db, tx, lock, commits, cart, tax_percent,
                   selected_customer, totals, pc, pay, sv>>

\* the "5%" button: sets the text and calls update_totals
apply_quick_discount(t) ==
    /\ AtMain(t)
    /\ cart[t] # <<>>
    /\ discount_var' = [discount_var EXCEPT ![t] = QuickDiscount]
    /\ \E tt \in update_totals(cart[t], QuickDiscount, tax_percent[t]) :
          totals' = [totals EXCEPT ![t] = tt]
    /\ UNCHANGED <<db, tx, lock, commits, cart, tax_percent, selected_customer, pc, pay, sv>>

\* SettingsDialog.save_settings: a tax percent outside 0..100 is refused; the
\* new one is stored in the application without recomputing the totals
TaxPercentValid(tax) == ~(tax < 0 \/ tax > 100)

\* "Cashier name is required"
CashierNameValid(cashier_name) == cashier_name # ""

\* the character of a digit
DigitOf(n) == CHOOSE ch \in DigitChars : DigitValue(ch) = n
\* str(n) of a natural number
RECURSIVE DecimalText(_)
DecimalText(n) ==
    IF n < 10 THEN <<DigitOf(n)>> ELSE Append(DecimalText(n \div 10), DigitOf(n % 10))
\* str(x) of a float with a whole value: "5.0"
str_float(tax) == DecimalText(tax) \o <<".", "0">>

\* DatabaseManager.set_setting: INSERT OR REPLACE INTO settings
set_setting(settings, key, value) == [settings EXCEPT ![key] = value]

\* the settings are written to the settings table and to the application
save_settings(t, tax, cashier_name) ==
    /\ AtMain(t)
    /\ lock = 0
    /\ TaxPercentValid(tax)
    /\ CashierNameValid(cashier_name)
    /\ tax # tax_percent[t] \/ cashier_name # db.settings.cashier_name
    /\ db' = [db EXCEPT !.settings =
                 set_setting(set_setting(@, "tax_percent", str_float(tax)),
                             "cashier_name", cashier_name)]
    /\ tax_percent' = [tax_percent EXCEPT ![t] = tax]
    /\ UNCHANGED <<tx, lock, commits, cart, discount_var, selected_customer, totals, pc, pay, sv>>

\* DatabaseManager.init_db on an existing database: the tables exist and
\* hold their rows, and every default setting is written with set_setting
init_db(d) ==
    [d EXCEPT !.settings =
        set_setting(set_setting(@, "tax_percent", DefaultSettings.tax_percent),
                    "cashier_name", DefaultSettings.cashier_name)]

\* ModernPOSApp.load_settings: the settings dictionary read from the table
load_settings(d) ==
    [tax_percent |-> d.settings.tax_percent, cashier_name |-> d.settings.cashier_name]

\* the application is closed and started again: ModernPOSApp.__init__ runs
\* init_db, then load_settings, and starts with an empty cart
restart(t) ==
    /\ AtMain(t)
    /\ lock = 0
    /\ db' = init_db(db)
    /\ tax_percent' =
          [tax_percent EXCEPT ![t] = float(load_settings(init_db(db)).tax_percent).val \div Scale]
    /\ cart' = [cart EXCEPT ![t] = <<>>]
    /\ discount_var' = [discount_var EXCEPT ![t] = DiscountZero]
    /\ selected_customer' = [selected_customer EXCEPT ![t] = NoCustomer]
    /\ totals' = [totals EXCEPT ![t] = ZeroTotals]
    /\ UNCHANGED <<tx, lock, commits, pc, pay, sv>>

(* ------------------------------ payment -------------------------------- *)
\* checkout -> process_payment: reads the displayed amounts back and opens
\* the payment dialog, then waits for it in a nested event loop
checkout(t) ==
    /\ AtMain(t)
    /\ cart[t] # <<>>
    /\ pc' = [pc EXCEPT ![t] = "paying"]
    /\ pay' = [pay EXCEPT ![t] = [total |-> totals[t].total,
                                  subtotal |-> totals[t].subtotal,
                                  discount |-> totals[t].discount,
                                  tax |-> totals[t].tax, nan |-> totals[t].nan]]
    /\ UNCHANGED <<db, tx, lock, commits, cart, discount_var, tax_percent,
                   selected_customer, totals, sv>>

\* a quick-pay button: the same dialog with the amount pre-set
process_payment_with_amount(t) ==
    /\ AtMain(t)
    /\ cart[t] # <<>>
    /\ pc' = [pc EXCEPT ![t] = "paying_quick"]
    /\ UNCHANGED <<db, tx, lock, commits, cart, discount_var, tax_percent,
                   selected_customer, totals, pay, sv>>

\* a dialog that accepts whatever amount is typed
PaymentAccepted_Always(paid, total_amount) == TRUE
\* EnhancedPaymentDialog.process_payment: the amount is accepted unless it is
\* less than the total the dialog was opened with
PaymentAccepted(paid, total_amount) == ~(paid < total_amount)
\* "paid < self.total_amount" is false when the total is NaN
DialogAccepts(paid, due) == due.nan \/ PaymentAccepted(paid, due.total)

\* lines 546-550 of save_sale: the receipt number and the frame of the call
\* f"R{timestamp}{random_part}" as a number
ReceiptNumber(timestamp, random_part) == timestamp * SuffixWidth + random_part

\* int(time.time()) read now: the clock does not run backwards, so it is not
\* before the second of any sale already stored
ClockReadings(sales) ==
    {ts \in 0 .. MaxClock :
        \A k \in 1 .. Len(sales) : sales[k].receipt_number \div SuffixWidth <= ts}

\* sqlite3.Row gives its columns by index and by key, not as attributes:
\* getattr(row, 'id', None) is None
RowAttribute(row, attribute) == NoCustomer
\* "getattr(self.selected_customer, 'id', None) if self.selected_customer
\* else None"
CustomerId(customer) ==
    IF customer # NoCustomer THEN RowAttribute(customer, "id") ELSE NoCustomer

NewFrame(paid, timestamp, random_part) ==
    [NoFrame EXCEPT !.receipt_number = ReceiptNumber(timestamp, random_part),
                    !.paid = paid, !.i = 1, !.db0 = db, !.attempts = 1]

\* "Process Payment" pressed with an accepted amount: the dialog closes and
\* process_payment calls complete_sale, which calls save_sale
PaymentDialog_process_payment(t, delta, timestamp, random_part) ==
    /\ pc[t] = "paying"
    /\ timestamp \in ClockReadings(db.sales)
    /\ LET paid == pay[t].total + delta
       IN  /\ DialogAccepts(paid, pay[t])
           /\ sv' = [sv EXCEPT ![t] = [NewFrame(paid, timestamp, random_part)
                                         EXCEPT !.cart0 = cart[t],
                                                !.customer_id =
                                                    CustomerId(selected_customer[t])]]
    /\ pc' = [pc EXCEPT ![t] = IF cart[t] = <<>> THEN "insert_sale" ELSE "check"]
    /\ UNCHANGED <<db, tx, lock, commits, cart, discount_var, tax_percent,
                   selected_customer, totals, pay>>

\* the quick-pay path calls complete_sale with three of its six arguments:
\* the TypeError ends the callback before save_sale is reached
QuickPay_process_payment(t, delta) ==
    /\ pc[t] = "paying_quick"
    /\ DialogAccepts(totals[t].total + delta, totals[t])
    /\ pc' = [pc EXCEPT ![t] = "main"]
    /\ UNCHANGED <<db, tx, lock, commits, cart, discount_var, tax_percent,
                   selected_customer, totals, pay, sv>>

\* "Process Payment" pressed with less than the total: the error box is shown
\* and the dialog stays open
InsufficientPayment(paid) ==
    [NoResult EXCEPT !.status = "Rejected", !.kind = "InsufficientPayment", !.requested = paid]

PaymentDialog_reject(t, delta) ==
    /\ pc[t] = "paying"
    /\ LET paid == pay[t].total + delta
       IN  /\ ~DialogAccepts(paid, pay[t])
           /\ sv' = [sv EXCEPT ![t] = [NoFrame EXCEPT !.paid = paid, !.cart0 = cart[t],
                                                     !.result = InsufficientPayment(paid)]]
    /\ UNCHANGED <<db, tx, lock, commits, cart, discount_var, tax_percent,
                   selected_customer, totals, pc, pay>>

PaymentDialog_cancel(t) ==
    /\ pc[t] \in {"paying", "paying_quick"}
    /\ pc' = [pc EXCEPT ![t] = "main"]
    /\ pay' = [pay EXCEPT ![t] = NoPay]
    /\ sv' = [sv EXCEPT ![t] = NoFrame]
    /\ UNCHANGED <<db, tx, lock, commits, cart, discount_var, tax_percent,
                   selected_customer, totals>>

(* ----------------------- DataManager.save_sale ------------------------- *)
Rejected(kind, id, available, requested) ==
    [NoResult EXCEPT !.status = "Rejected", !.kind = kind, !.product = id,
                     !.available = available, !.requested = requested]
\* an except clause that reports a persistence failure as a business error
Aborted_AsRejected(kind) == [NoResult EXCEPT !.status = "Rejected", !.kind = kind]
\* "except sqlite3.Error": rollback, then ValueError("Database error: ...")
Aborted(kind) == [NoResult EXCEPT !.status = "Aborted", !.kind = kind]
Committed(sale_id) == [NoResult EXCEPT !.status = "Committed", !.sale_id = sale_id]
\* save_sale raised instead of returning
Failed(result) == result.status \in {"Rejected", "Aborted"}

\* save_sale has raised: the frame keeps the error for complete_sale
Raise(t, result, at) ==
    /\ sv' = [sv EXCEPT ![t].result = result, ![t].failed_at = at]
    /\ pc' = [pc EXCEPT ![t] = "done"]

\* a check that never refuses
InsufficientStock_Never(current_stock, qty) == FALSE
\* a check that also refuses a quantity equal to the stock
InsufficientStock_OrEqual(current_stock, qty) == current_stock <= qty
\* "if current_stock < item['qty']: raise ValueError(...)"
InsufficientStock(current_stock, qty) == current_stock < qty

\* what the stock check of one cart line raises (NoResult: nothing), reading
\* the committed products table
CheckLine(item, products) ==
    IF item.id \notin DOMAIN products
    THEN Rejected("NotFound", item.id, 0, item.qty)
    ELSE IF InsufficientStock(products[item.id], item.qty)
    THEN Rejected("InsufficientStock", item.id, products[item.id], item.qty)
    ELSE NoResult

\* a first loop that stops after the first cart line
LastChecked_FirstOnly(c) == 1
\* "for item in cart": the first loop checks every line of the cart
LastChecked(c) == Len(c)

\* a first loop that takes each line's quantity off the stock as it goes
StockAfterCheck_Decrement(stock, item) == [stock EXCEPT ![item.id] = @ - item.qty]
\* the first loop only SELECTs: the products table is as it was
StockAfterCheck(stock, item) == stock

\* one iteration of the first loop: SELECT stock FROM products WHERE id = ?
\* The SELECT runs outside any transaction (the sqlite3 module opens one only
\* before INSERT/UPDATE/DELETE), so it takes no lock.
save_sale_check(t) ==
    /\ pc[t] = "check"
    /\ LET i == sv[t].i
           r == CheckLine(cart[t][i], db.stock)
       IN  IF r # NoResult
           THEN Raise(t, r, "check") /\ UNCHANGED db
           ELSE /\ sv' = [sv EXCEPT ![t].i = IF i < LastChecked(cart[t]) THEN i + 1 ELSE 1]
                /\ pc' = [pc EXCEPT ![t] = IF i < LastChecked(cart[t]) THEN "check"
                                            ELSE "insert_sale"]
                /\ db' = [db EXCEPT !.stock = StockAfterCheck(db.stock, cart[t][i])]
    /\ UNCHANGED <<tx, lock, commits, cart, discount_var, tax_percent,
                   selected_customer, totals, pay>>

\* the sales row built from the arguments of save_sale
SaleRow(t, sale_id) ==
    [id |-> sale_id, receipt_number |-> sv[t].receipt_number,
     customer_id |-> sv[t].customer_id, subtotal |-> pay[t].subtotal, discount |-> pay[t].discount,
     tax |-> pay[t].tax, total |-> pay[t].total, paid |-> sv[t].paid,
     change_amount |-> sv[t].paid - pay[t].total]

\* a sales table without the UNIQUE constraint
ReceiptTaken_Never(sales, receipt_number) == FALSE
\* receipt_number TEXT UNIQUE NOT NULL
ReceiptTaken(sales, receipt_number) ==
    \E k \in 1 .. Len(sales) : sales[k].receipt_number = receipt_number

\* an INSERT that overwrites the table with the new row
InsertRow_Overwrite(table, row) == <<row>>
\* INSERT INTO ... VALUES (...): the table keeps its rows and gains one
InsertRow(table, row) == Append(table, row)

\* INSERT INTO sales: the implicit BEGIN takes the write lock; a NaN total is
\* bound as NULL and violates "total REAL NOT NULL"; a receipt number
\* already in the table raises sqlite3.IntegrityError, the transaction is
\* rolled back and the error re-raised as ValueError("Database error: ...")
save_sale_insert_sale(t) ==
    /\ pc[t] = "insert_sale"
    /\ lock = 0
    /\ IF pay[t].nan
       THEN /\ Raise(t, Aborted("NotNull"), "insert_sale")
            /\ UNCHANGED <<tx, lock, commits>>
       ELSE IF ReceiptTaken(db.sales, sv[t].receipt_number)
       THEN /\ Raise(t, Aborted("IntegrityError"), "insert_sale")
            /\ UNCHANGED <<tx, lock, commits>>
       ELSE /\ tx' = [db EXCEPT !.sales = InsertRow(db.sales, SaleRow(t, Len(db.sales) + 1))]
            /\ lock' = t
            /\ sv' = [sv EXCEPT ![t].i = 1]
            /\ pc' = [pc EXCEPT ![t] = IF cart[t] = <<>> THEN "commit" ELSE "insert_item"]
    /\ UNCHANGED <<db, commits, cart, discount_var, tax_percent, selected_customer, totals, pay>>

\* a sale_items row priced from the products table at commit time
ItemRow_CatalogPrice(sale_id, item) ==
    [sale_id |-> sale_id, product_id |-> item.id, quantity |-> item.qty,
     unit_price |-> tx.price[item.id], total_price |-> tx.price[item.id] * item.qty]
\* the sale_items row of one cart line
ItemRow(sale_id, item) ==
    [sale_id |-> sale_id, product_id |-> item.id, quantity |-> item.qty,
     unit_price |-> item.price, total_price |-> item.price * item.qty]

\* INSERT INTO sale_items for cart line i
save_sale_insert_item(t) ==
    /\ pc[t] = "insert_item"
    /\ lock = t
    /\ tx' = [tx EXCEPT !.sale_items =
                 InsertRow(tx.sale_items, ItemRow(Len(tx.sales), cart[t][sv[t].i]))]
    /\ pc' = [pc EXCEPT ![t] = "update_stock"]
    /\ UNCHANGED <<db, lock, commits, cart, discount_var, tax_percent,
                   selected_customer, totals, pay, sv>>

\* a decrement of one unit whatever the quantity
StockAfterSale_OneUnit(stock, qty) == stock - 1
\* UPDATE products SET stock = stock - ? WHERE id = ?
StockAfterSale(stock, qty) == stock - qty

save_sale_update_stock(t) ==
    /\ pc[t] = "update_stock"
    /\ lock = t
    /\ LET i == sv[t].i
           item == cart[t][i]
       IN  /\ tx' = [tx EXCEPT !.stock[item.id] = StockAfterSale(tx.stock[item.id], item.qty)]
           /\ sv' = [sv EXCEPT ![t].i = i + 1]
           /\ pc' = [pc EXCEPT ![t] = IF i < Len(cart[t]) THEN "insert_item" ELSE "commit"]
    /\ UNCHANGED <<db, lock, commits, cart, discount_var, tax_percent,
                   selected_customer, totals, pay>>

\* a save_sale that empties the list it was given
CartAfterSave_Emptied(cart_items) == <<>>
\* save_sale only reads cart_items (item['id'], item['qty'], item['price'],
\* item['name']): the caller's list is the same when it returns
CartAfterSave(cart_items) == cart_items

\* conn.commit(): the private copy becomes the database, save_sale returns
save_sale_commit(t) ==
    /\ pc[t] = "commit"
    /\ lock = t
    /\ db' = tx
    /\ tx' = NoTx
    /\ lock' = 0
    /\ sv' = [sv EXCEPT ![t].result = Committed(Len(tx.sales))]
    /\ pc' = [pc EXCEPT ![t] = "done"]
    /\ commits' = commits + 1
    /\ cart' = [cart EXCEPT ![t] = CartAfterSave(cart[t])]
    /\ UNCHANGED <<discount_var, tax_percent, selected_customer, totals, pay>>

\* an error path that keeps what the transaction wrote so far
AfterError_KeepWrites(committed, private) == private
\* the database as the "with conn" block and the except clauses leave it when
\* a statement of the transaction raises: conn.rollback()
AfterError(committed, private) == committed

\* a statement of the transaction (or the commit) raises sqlite3.Error, e.g. a
\* disk I/O error: rollback, then ValueError("Database error: ...")
save_sale_error(t) ==
    /\ pc[t] \in {"insert_item", "update_stock", "commit"}
    /\ lock = t
    /\ db' = AfterError(db, tx)
    /\ tx' = NoTx
    /\ lock' = 0
    /\ Raise(t, Aborted("DatabaseError"), pc[t])
    /\ UNCHANGED <<commits, cart, discount_var, tax_percent, selected_customer, totals, pay>>

\* another connection holds the write lock until the busy timeout expires:
\* sqlite3.OperationalError("database is locked")
save_sale_busy(t) ==
    /\ pc[t] = "insert_sale"
    /\ lock \notin {0, t}
    /\ Raise(t, Aborted("Busy"), "insert_sale")
    /\ UNCHANGED <<db, tx, lock, commits, cart, discount_var, tax_percent,
                   selected_customer, totals, pay>>

\* a complete_sale that starts a new sale whatever save_sale returned
ClearsCart_Always(result) == TRUE
\* self.new_sale() is in the try block after save_sale: it runs only when
\* save_sale returned
ClearsCart(result) == result.status = "Committed"

\* the rest of complete_sale: after a sale new_sale() starts the next one,
\* after a ValueError the message is shown and nothing else is touched
complete_sale(t) ==
    /\ pc[t] = "done"
    /\ IF ClearsCart(sv[t].result)
       THEN NewSaleEffect(t)
       ELSE UNCHANGED <<commits, cart, discount_var, selected_customer, totals>>
    /\ pc' = [pc EXCEPT ![t] = "main"]
    /\ pay' = [pay EXCEPT ![t] = NoPay]
    /\ sv' = [sv EXCEPT ![t] = NoFrame]
    /\ UNCHANGED <<db, tx, lock, commits, tax_percent>>

\* the operator tries again after a failed sale: the error box of
\* complete_sale is closed, Checkout reads the displayed amounts, and
\* "Process Payment" is pressed with the same amount, which calls save_sale a
\* second time with the same cart; the frame remembers the first error
checkout_again(t, timestamp, random_part) ==
    /\ pc[t] = "done"
    /\ Failed(sv[t].result)
    /\ Open
    /\ cart[t] # <<>>
    /\ timestamp \in ClockReadings(db.sales)
    /\ LET due == [total |-> totals[t].total, subtotal |-> totals[t].subtotal,
                   discount |-> totals[t].discount, tax |-> totals[t].tax,
                   nan |-> totals[t].nan]
       IN  /\ DialogAccepts(sv[t].paid, due)
           /\ pay' = [pay EXCEPT ![t] = due]
           /\ sv' = [sv EXCEPT ![t] = [NewFrame(sv[t].paid, timestamp, random_part)
                                         EXCEPT !.cart0 = cart[t],
                                                !.customer_id =
                                                    CustomerId(selected_customer[t]),
                                                !.prev = sv[t].result]]
    /\ pc' = [pc EXCEPT ![t] = "check"]
    /\ UNCHANGED <<db, tx, lock, commits, cart, discount_var, tax_percent,
                   selected_customer, totals>>

(* ------------------------- the quantity dialog ------------------------- *)
\* a dialog that saves whatever quantity is typed
QuantityValid_Any(qty) == TRUE
\* save_quantity: "if qty <= 0: Invalid Quantity"
QuantityValid(qty) == ~(qty <= 0)

\* what edit_cart_item does with dialog.result: 0 is the Remove signal
\* (del self.cart[index]), another result is stored as the quantity of the
\* line now at index; an index past the end raises IndexError and the
\* handler ends with the cart as it is
SetQuantity_AllLines(c, index, result) == [i \in 1 .. Len(c) |-> [c[i] EXCEPT !.qty = result]]
SetQuantity(c, index, result) ==
    IF index > Len(c) THEN c
    ELSE IF result = 0 THEN RemoveAt(c, index)
    ELSE [c EXCEPT ![index].qty = result]

\* edit_cart_item up to wait_window: the dialog is open on the selected line
\* and the handler waits for it in a nested event loop
edit_cart_item_open(t, index) ==
    /\ AtMain(t)
    /\ index \in 1 .. Len(cart[t])
    /\ pc' = [pc EXCEPT ![t] = "editing"]
    /\ sv' = [sv EXCEPT ![t] = [NoFrame EXCEPT !.i = index]]
    /\ UNCHANGED <<db, tx, lock, commits, cart, discount_var, tax_percent, selected_customer,
                   totals, pay>>

\* the rest of edit_cart_item once the dialog has closed with a result
EditResult(t, result) ==
    /\ IF sv[t].i > Len(cart[t])
       THEN UNCHANGED <<cart, totals>>
       ELSE RefreshCart(t, SetQuantity(cart[t], sv[t].i, result))
    /\ pc' = [pc EXCEPT ![t] = "main"]
    /\ sv' = [sv EXCEPT ![t] = NoFrame]
    /\ UNCHANGED <<db, tx, lock, commits, discount_var, tax_percent, selected_customer, pay>>

\* Save (or Return) in the dialog: an invalid quantity shows the error box
\* and leaves the dialog open
QuantityEditDialog_save_quantity(t, qty) ==
    /\ pc[t] = "editing"
    /\ qty <= MaxQty
    /\ IF QuantityValid(qty)
       THEN EditResult(t, qty)
       ELSE /\ sv' = [sv EXCEPT ![t].result = Rejected("InvalidQuantity", 0, 0, qty)]
            /\ UNCHANGED <<db, tx, lock, commits, cart, discount_var, tax_percent,
                           selected_customer, totals, pc, pay>>

\* Remove in the dialog, confirmed
QuantityEditDialog_remove_item(t) ==
    /\ pc[t] = "editing"
    /\ EditResult(t, 0)

\* Cancel: dialog.result is None and edit_cart_item does nothing
QuantityEditDialog_cancel(t) ==
    /\ pc[t] = "editing"
    /\ pc' = [pc EXCEPT ![t] = "main"]
    /\ sv' = [sv EXCEPT ![t] = NoFrame]
    /\ UNCHANGED <<db, tx, lock, commits, cart, discount_var, tax_percent, selected_customer,
                   totals, pay>>

(* ------------------------------ customers ------------------------------ *)
\* the customer dialog calls back with a customers row, or None for walk-in
on_customer_selected(t, customer) ==
    /\ AtMain(t)
    /\ customer # selected_customer[t]
    /\ selected_customer' = [selected_customer EXCEPT ![t] = customer]
    /\ UNCHANGED <<db, tx, lock, commits, cart, discount_var, tax_percent, totals, pc, pay, sv>>

(* ------------------------------ held carts ----------------------------- *)
\* json.dumps(cart): each line becomes an object of key/value pairs, in
\* the order the line's keys were inserted
json_dumps(c) ==
    [i \in 1 .. Len(c) |->
        <<<<"id", c[i].id>>, <<"name", c[i].name>>, <<"price", c[i].price>>,
          <<"qty", c[i].qty>>>>]
\* the value of a key of a JSON object
Member(object, key) == (CHOOSE i \in 1 .. Len(object) : object[i][1] = key)
\* a json.loads that loses the quantities
json_loads_UnitQty(text) ==
    [i \in 1 .. Len(text) |->
        [id |-> text[i][Member(text[i], "id")][2], name |-> text[i][Member(text[i], "name")][2],
         price |-> text[i][Member(text[i], "price")][2], qty |-> 1]]
\* json.loads(result['cart_data']): a list of dicts again
json_loads(text) ==
    [i \in 1 .. Len(text) |->
        [id |-> text[i][Member(text[i], "id")][2], name |-> text[i][Member(text[i], "name")][2],
         price |-> text[i][Member(text[i], "price")][2],
         qty |-> text[i][Member(text[i], "qty")][2]]]

\* the ids of the rows of held_carts
HeldIds(d) == {d.held_carts[k].id : k \in 1 .. Len(d.held_carts)}
\* SELECT * FROM held_carts WHERE id = ?
HeldRow(d, cart_id) == d.held_carts[CHOOSE k \in 1 .. Len(d.held_carts) : d.held_carts[k].id = cart_id]

\* ModernPOSApp.hold_cart and DataManager.hold_cart: the cart is inserted
\* into held_carts under the next AUTOINCREMENT id, then the cart and the
\* customer are cleared and the display refreshed
hold_cart(t) ==
    /\ AtMain(t)
    /\ lock = 0
    /\ cart[t] # <<>>
    /\ Len(db.held_carts) < MaxHeld
    /\ db.held_seq < MaxHeldSeq
    /\ db' = [db EXCEPT !.held_seq = @ + 1,
                        !.held_carts = InsertRow(@, [id |-> db.held_seq + 1,
                                                     cart_data |-> json_dumps(cart[t]),
                                                     customer_id |-> CustomerId(selected_customer[t])])]
    /\ selected_customer' = [selected_customer EXCEPT ![t] = NoCustomer]
    /\ RefreshCart(t, <<>>)
    /\ UNCHANGED <<tx, lock, commits, discount_var, tax_percent, pc, pay, sv>>

\* a delete_held_cart that leaves the row
AfterDelete_Kept(held_carts, cart_id) == held_carts
\* DELETE FROM held_carts WHERE id = ?
AfterDelete(held_carts, cart_id) == SelectSeq(held_carts, LAMBDA row : row.id # cart_id)

\* HoldCartDialog.resume_cart on the selected row, confirmed: the held
\* lines replace the cart, the held customer (if any) is selected, the row
\* is deleted and the display refreshed
resume_cart(t, cart_id) ==
    /\ AtMain(t)
    /\ lock = 0
    /\ cart_id \in HeldIds(db)
    /\ LET row == HeldRow(db, cart_id)
           cart_data == json_loads(row.cart_data)
       IN  /\ cart_data # <<>>
           /\ selected_customer' =
                 IF row.customer_id # NoCustomer
                 THEN [selected_customer EXCEPT ![t] = row.customer_id]
                 ELSE selected_customer
           /\ RefreshCart(t, cart_data)
    /\ db' = [db EXCEPT !.held_carts = AfterDelete(@, cart_id)]
    /\ UNCHANGED <<tx, lock, commits, discount_var, tax_percent, pc, pay, sv>>

(* ------------------------ writers of products.stock -------------------- *)
\* ProductFormDialog.save_product on an existing product: "Stock cannot be
\* negative" ends the handler before the UPDATE
StockFieldValid(stock) == ~(stock < 0)
\* "Price must be greater than zero"
PriceFieldValid(price) == ~(price <= 0)

\* "Product name is required"
NameFieldValid(name) == name # ""

save_product(t, p, name, price, stock) ==
    /\ AtKeyboard(t)
    /\ lock = 0
    /\ NameFieldValid(name)
    /\ PriceFieldValid(price)
    /\ StockFieldValid(stock)
    /\ stock # db.stock[p] \/ price # db.price[p] \/ name # db.name[p]
    /\ db' = [db EXCEPT !.stock[p] = stock, !.price[p] = price, !.name[p] = name]
    /\ UNCHANGED <<tx, lock, commits, cart, discount_var, tax_percent,
                   selected_customer, totals, pc, pay, sv>>

\* ProductManagementDialog.delete_product, confirmed: the product is
\* deactivated, its row stays
delete_product(t, p) ==
    /\ AtKeyboard(t)
    /\ lock = 0
    /\ db.is_active[p]
    /\ db' = [db EXCEPT !.is_active[p] = FALSE]
    /\ UNCHANGED <<tx, lock, commits, cart, discount_var, tax_percent,
                   selected_customer, totals, pc, pay, sv>>

\* DataManager.get_sale_details: the sale's sale_items rows, each joined
\* with the products row its product_id references for product_name
get_sale_details(d, sale_id) ==
    LET items == SelectSeq(d.sale_items, LAMBDA row : row.sale_id = sale_id)
    IN  [k \in 1 .. Len(items) |->
            [product_name |-> d.name[items[k].product_id], quantity |-> items[k].quantity,
             unit_price |-> items[k].unit_price, total_price |-> items[k].total_price]]

\* StockUpdateDialog.update_stock: current_stock is the value the product
\* list showed when the dialog was opened; -1 stands for a rejected input
NewStock(current_stock, update_type, amount) ==
    IF amount < 0 THEN -1
    ELSE IF update_type = "set" THEN amount
    ELSE IF update_type = "add" THEN current_stock + amount
    ELSE IF amount > current_stock THEN -1
    ELSE current_stock - amount

update_stock(t, p, current_stock, update_type, amount) ==
    /\ AtKeyboard(t)
    /\ lock = 0
    /\ LET new_stock == NewStock(current_stock, update_type, amount)
       IN  /\ ~(new_stock < 0)
           /\ new_stock <= MaxStock
           /\ new_stock # db.stock[p]
           /\ db' = [db EXCEPT !.stock[p] = new_stock]
    /\ UNCHANGED <<tx, lock, commits, cart, discount_var, tax_percent,
                   selected_customer, totals, pc, pay, sv>>

(* --------------------------- backup and restore ------------------------ *)
\* the backup files in the backups folder: a copy of the database made
\* before any sale
Backups == {FreshDb}

\* Settings > Restore Backup, confirmed: shutil.copy2(backup_file_path,
\* DB_PATH) replaces the database file, the window is destroyed and the
\* application is started again on the restored file (the copy of the current
\* file that create_backup makes first goes to the backups folder)
restore_backup(t, backup_file_path) ==
    /\ pc[t] = "main"
    /\ lock = 0
    /\ db # backup_file_path
    /\ db' = backup_file_path
    /\ cart' = [cart EXCEPT ![t] = <<>>]
    /\ discount_var' = [discount_var EXCEPT ![t] = DiscountZero]
    /\ tax_percent' = [tax_percent EXCEPT ![t] = 0]
    /\ selected_customer' = [selected_customer EXCEPT ![t] = NoCustomer]
    /\ totals' = [totals EXCEPT ![t] = ZeroTotals]
    /\ UNCHANGED <<tx, lock, commits, pc, pay, sv>>

(* --------------------------- specifications ---------------------------- *)
\* the single-terminal deployment: terminal 1 is the only application
Next ==
    \/ \E p \in Products, s \in 0 .. MaxStock : add_to_cart(1, p, s)
    \/ \E index \in 1 .. Cardinality(Products), result \in 0 .. MaxQty :
          edit_cart_item(1, index, result)
    \/ \E index \in 1 .. Cardinality(Products) : remove_cart_item(1, index)
    \/ clear_cart(1)
    \/ new_sale(1)
    \/ checkout(1)
    \/ process_payment_with_amount(1)
    \/ \E delta \in PaidDeltas, timestamp \in 0 .. MaxClock, random_part \in Randoms :
          PaymentDialog_process_payment(1, delta, timestamp, random_part)
    \/ \E delta \in PaidDeltas : QuickPay_process_payment(1, delta)
    \/ \E delta \in PaidDeltas : PaymentDialog_reject(1, delta)
    \/ PaymentDialog_cancel(1)
    \/ save_sale_check(1)
    \/ save_sale_insert_sale(1)
    \/ save_sale_insert_item(1)
    \/ save_sale_update_stock(1)
    \/ save_sale_commit(1)
    \/ save_sale_error(1)
    \/ complete_sale(1)
    \/ \E timestamp \in 0 .. MaxClock, random_part \in Randoms :
          checkout_again(1, timestamp, random_part)
    \/ \E backup_file_path \in Backups : restore_backup(1, backup_file_path)
    \/ \E p \in Products, stock \in -1 .. MaxStock : save_product(1, p, db.name[p], db.price[p], stock)
    \/ \E p \in Products, current_stock \in 0 .. MaxStock,
          update_type \in {"set", "add", "subtract"}, amount \in -1 .. MaxStock :
          update_stock(1, p, current_stock, update_type, amount)

Spec == Init /\ [][Next]_vars

\* save_sale is one synchronous call: once complete_sale has called it, its
\* next statement runs (or raises) without waiting for any event
SaveSaleStep(t) ==
    \/ save_sale_check(t)
    \/ save_sale_insert_sale(t)
    \/ save_sale_insert_item(t)
    \/ save_sale_update_stock(t)
    \/ save_sale_commit(t)
    \/ save_sale_error(t)

SpecLive == Spec /\ WF_vars(SaveSaleStep(1))

\* the cart and its dialogs: every way the operator changes the in-memory
\* cart, with exact payments and one receipt number
NextCart ==
    \/ \E p \in Products, s \in 0 .. MaxStock : add_to_cart(1, p, s)
    \/ \E index \in 1 .. Cardinality(Products) : edit_cart_item_open(1, index)
    \/ \E qty \in -1 .. MaxQty : QuantityEditDialog_save_quantity(1, qty)
    \/ QuantityEditDialog_remove_item(1)
    \/ QuantityEditDialog_cancel(1)
    \/ \E index \in 1 .. Cardinality(Products) : remove_cart_item(1, index)
    \/ clear_cart(1)
    \/ new_sale(1)
    \/ \E customer \in Customers \cup {NoCustomer} : on_customer_selected(1, customer)
    \/ hold_cart(1)
    \/ \E cart_id \in 1 .. MaxHeldSeq : resume_cart(1, cart_id)
    \/ checkout(1)
    \/ PaymentDialog_process_payment(1, 0, 0, RandomLow)
    \/ PaymentDialog_cancel(1)
    \/ save_sale_check(1)
    \/ save_sale_insert_sale(1)
    \/ save_sale_insert_item(1)
    \/ save_sale_update_stock(1)
    \/ save_sale_commit(1)
    \/ save_sale_error(1)
    \/ complete_sale(1)

SpecCart == Init /\ [][NextCart]_vars

\* Two application instances on one database file, each at its main window
\* with a one-line cart it has built, stock levels as earlier updates left them
CartsMulti ==
    {<<[id |-> p, name |-> Name[p], price |-> Price[p], qty |-> q]>> :
        p \in Products, q \in 1 .. MaxQty}

InitMulti ==
    /\ \E stock \in [Products -> 0 .. MaxStock] : db = [FreshDb EXCEPT !.stock = stock]
    /\ tx = NoTx
    /\ lock = 0
    /\ commits = 0
    /\ cart \in [Terminals -> CartsMulti]
    /\ discount_var = [t \in Terminals |-> DiscountZero]
    /\ tax_percent = [t \in Terminals |-> 0]
    /\ selected_customer = [t \in Terminals |-> NoCustomer]
    /\ totals \in [Terminals -> UNION {update_totals(c, DiscountZero, 0) : c \in CartsMulti}]
    /\ \A t \in Terminals : totals[t] \in update_totals(cart[t], DiscountZero, 0)
    /\ pc = [t \in Terminals |-> "main"]
    /\ pay = [t \in Terminals |-> NoPay]
    /\ sv = [t \in Terminals |-> NoFrame]

NextMulti ==
    \E t \in Terminals :
        \/ checkout(t)
        \/ \E delta \in PaidDeltas, timestamp \in 0 .. MaxClock, random_part \in Randoms :
              PaymentDialog_process_payment(t, delta, timestamp, random_part)
        \/ save_sale_check(t)
        \/ save_sale_insert_sale(t)
        \/ save_sale_busy(t)
        \/ save_sale_insert_item(t)
        \/ save_sale_update_stock(t)
        \/ save_sale_commit(t)
        \/ save_sale_error(t)
        \/ complete_sale(t)

SpecMulti == InitMulti /\ [][NextMulti]_vars

(* The pricing of a sale: one terminal with enough stock, the discount entry
   and the tax setting. *)

InitPricing ==
    /\ db = FreshDb
    /\ tx = NoTx
    /\ lock = 0
    /\ commits = 0
    /\ cart = [t \in Terminals |-> <<>>]
    /\ discount_var = [t \in Terminals |-> DiscountZero]
    /\ tax_percent = [t \in Terminals |-> 0]
    /\ selected_customer = [t \in Terminals |-> NoCustomer]
    /\ totals = [t \in Terminals |-> ZeroTotals]
    /\ pc = [t \in Terminals |-> "main"]
    /\ pay = [t \in Terminals |-> NoPay]
    /\ sv = [t \in Terminals |-> NoFrame]

NextPricing ==
    \/ \E p \in Products : add_to_cart(1, p, db.stock[p])
    \/ new_sale(1)
    \/ \E text \in DiscountTexts : set_discount(1, text)
    \/ apply_quick_discount(1)
    \/ \E tax \in TaxPercents \cup {-1} : save_settings(1, tax, db.settings.cashier_name)
    \/ checkout(1)
    \/ \E delta \in PaidDeltas, random_part \in Randoms :
          PaymentDialog_process_payment(1, delta, 0, random_part)
    \/ save_sale_check(1)
    \/ save_sale_insert_sale(1)
    \/ save_sale_insert_item(1)
    \/ save_sale_update_stock(1)
    \/ save_sale_commit(1)
    \/ complete_sale(1)

SpecPricing == InitPricing /\ [][NextPricing]_vars

(* The catalog edited while a sale is built: one terminal with enough stock,
   the product form changing prices between add_to_cart and the commit. *)
\* the prices the product form is given for product p
CatalogPrices(p) == {Price[p], Price[p] + PriceStep}

NextCatalog ==
    \/ \E p \in Products : add_to_cart(1, p, db.stock[p])
    \/ \E p \in Products : \E price \in CatalogPrices(p) \cup {0} :
          save_product(1, p, db.name[p], price, db.stock[p])
    \/ checkout(1)
    \/ \E random_part \in Randoms : PaymentDialog_process_payment(1, 0, 0, random_part)
    \/ save_sale_check(1)
    \/ save_sale_insert_sale(1)
    \/ save_sale_insert_item(1)
    \/ save_sale_update_stock(1)
    \/ save_sale_commit(1)
    \/ complete_sale(1)

SpecCatalog == InitPricing /\ [][NextCatalog]_vars

(* The catalog edited after sales were committed: products are also renamed
   and deleted in the product management dialog, with or without an earlier
   sale in the database. *)
\* the names the product form is given for product p
CatalogNames(p) == {Name[p], "Sparkling", ""}

NextHistory ==
    \/ NextCatalog
    \/ \E p \in Products : \E name \in CatalogNames(p) :
          save_product(1, p, name, db.price[p], db.stock[p])
    \/ \E p \in Products : delete_product(1, p)

SpecHistory == Init /\ [][NextHistory]_vars

(* The settings dialog and restarts of the application beside the cart. *)
\* the cashier names the settings dialog is given
CashierNames == {"Admin", "Sara", ""}

NextSettings ==
    \/ \E p \in Products : add_to_cart(1, p, db.stock[p])
    \/ \E index \in 1 .. Cardinality(Products) : remove_cart_item(1, index)
    \/ \E tax \in TaxPercents \cup {-1}, cashier_name \in CashierNames :
          save_settings(1, tax, cashier_name)
    \/ restart(1)

SpecSettings == Init /\ [][NextSettings]_vars

(* The calculator alone: update_totals applied to a cart, a discount text
   and a tax percentage drawn from bounded sets. *)
\* the characters of the discount texts
Chars == {"0", "1", "5", "-", ".", "%", "n", "a"}
\* the texts typed: any text of up to MaxTextLen characters whose flat amount,
\* if it is one, is at most MaxAmount
Texts ==
    {s \in UNION {[1 .. n -> Chars] : n \in 0 .. MaxTextLen} :
        \/ s = <<>>
        \/ s[Len(s)] = "%"
        \/ float(s).error
        \/ float(s).val <= MaxAmount * Scale}
\* unit prices of cart lines: 1.50 and, repriced, 29.99 (the price of the
\* sample Headphones)
CalcPrices == {Price[1], HeadphonesPrice}
CalcCarts ==
    {<<[id |-> 1, name |-> Name[1], price |-> pr, qty |-> q]>> :
        pr \in CalcPrices, q \in 1 .. MaxQty}
    \cup {<<[id |-> 1, name |-> Name[1], price |-> Price[1], qty |-> q],
            [id |-> 2, name |-> Name[2], price |-> Price[2], qty |-> 1]>> :
             q \in 1 .. MaxQty}
CalcTaxPercents == {0, 5, 17}

InitCalc ==
    /\ db = FreshDb
    /\ tx = NoTx
    /\ lock = 0
    /\ commits = 0
    /\ \E c \in CalcCarts : cart = [t \in Terminals |-> IF t = 1 THEN c ELSE <<>>]
    /\ \E text \in Texts :
          discount_var = [t \in Terminals |-> IF t = 1 THEN text ELSE DiscountZero]
    /\ \E tax \in CalcTaxPercents :
          tax_percent = [t \in Terminals |-> IF t = 1 THEN tax ELSE 0]
    /\ selected_customer = [t \in Terminals |-> NoCustomer]
    /\ totals = [t \in Terminals |-> ZeroTotals]
    /\ pc = [t \in Terminals |-> "main"]
    /\ pay = [t \in Terminals |-> NoPay]
    /\ sv = [t \in Terminals |-> NoFrame]

\* refresh_cart on the cart as it is: update_totals recomputes the display
refresh_cart(t) ==
    /\ pc[t] = "main"
    /\ RefreshCart(t, cart[t])
    /\ UNCHANGED <<db, tx, lock, commits, discount_var, tax_percent,
                   selected_customer, pc, pay, sv>>

NextCalc == refresh_cart(1)

SpecCalc == InitCalc /\ [][NextCalc]_vars

(* ------------------------------ properties ----------------------------- *)
\* terminal t is inside complete_sale: in save_sale, or just back from it
InSave(t) == pc[t] \in {"check", "insert_sale", "insert_item", "update_stock", "commit", "done"}
Returned(t) == pc[t] = "done"
Outcome(t) == sv[t].result
Before(t) == sv[t].db0

\* the units of product p a cart asks for
QtyOf(c, p) == SumSeq([i \in 1 .. Len(c) |-> IF c[i].id = p THEN c[i].qty ELSE 0])

\* the cart lines whose quantity exceeds the stock a products table holds
Offending(c, products) == {i \in 1 .. Len(c) : c[i].qty > products[c[i].id]}

\* the database a complete sale of t's cart makes of the one save_sale found
FullyApplied(t) ==
    LET d == Before(t)
        sale_id == Len(d.sales) + 1
    IN  [d EXCEPT
           !.stock = [p \in Products |-> d.stock[p] - QtyOf(cart[t], p)],
           !.sales = Append(d.sales, SaleRow(t, sale_id)),
           !.sale_items = d.sale_items \o [i \in 1 .. Len(cart[t]) |-> ItemRow(sale_id, cart[t][i])]]

\* C1: a commit is all-or-nothing.  While save_sale runs and when it has
\* returned, the database readers see is either exactly the one the call
\* found, or that one with the Sale row, every SaleItem row and every stock
\* decrement of the cart applied, the latter only when the call succeeded; so
\* after a failed call the three tables are as before.
C1_AllOrNothing ==
    \A t \in Terminals :
        InSave(t) =>
            \/ db = Before(t)
            \/ db = FullyApplied(t) /\ Outcome(t).status = "Committed"

\* C1 witness: a write failed after the Sale row and a SaleItem row of a
\* two-line cart had been inserted, and save_sale has returned the error
C1_Witness ==
    /\ Returned(1)
    /\ Outcome(1).kind = "DatabaseError"
    /\ sv[1].failed_at = "update_stock"
    /\ Len(cart[1]) = 2

\* C2: when some line of the cart asks for more than the persisted stock of
\* its product, wherever the line stands in the cart, save_sale fails and the
\* sales table, the sale_items table and every stock are as before the call.
C2_InsufficientStockChangesNothing ==
    \A t \in Terminals :
        (Returned(t) /\ Offending(cart[t], Before(t).stock) # {}) =>
            /\ Outcome(t).status # "Committed"
            /\ db = Before(t)

\* C2 witness: the second line of a two-line cart is the only offending one
\* and the call has been rejected
C2_Witness ==
    /\ Returned(1)
    /\ Offending(cart[1], Before(1).stock) = {2}
    /\ Outcome(1).status = "Rejected"

\* C3: in the single-terminal application every product's persisted stock
\* is >= 0 in every reachable state.
C3_StockNeverNegative == \A p \in Products : db.stock[p] >= 0

\* C3 witness: a committed sale has taken a product's stock down to zero
C3_Witness ==
    /\ Returned(1)
    /\ Outcome(1).status = "Committed"
    /\ \E p \in Products : db.stock[p] = 0 /\ Before(1).stock[p] > 0

\* C4: after a successful commit each product's stock has decreased by
\* exactly the quantity of its cart line, no other product's stock has
\* changed, and the total decrease equals the sum of the quantities of the
\* SaleItem rows created for the sale.
C4_StockConservation ==
    \A t \in Terminals :
        (Returned(t) /\ Outcome(t).status = "Committed") =>
            /\ \A p \in Products : db.stock[p] = Before(t).stock[p] - QtyOf(cart[t], p)
            /\ SumSeq([p \in 1 .. Cardinality(Products) |-> Before(t).stock[p] - db.stock[p]])
                 = SumSeq([j \in 1 .. Len(db.sale_items) |->
                             IF db.sale_items[j].sale_id = Outcome(t).sale_id
                             THEN db.sale_items[j].quantity ELSE 0])

\* C4 witness: a one-line cart of two units has been committed
C4_Witness ==
    /\ Returned(1)
    /\ Outcome(1).status = "Committed"
    /\ Len(cart[1]) = 1
    /\ cart[1][1].qty = 2

\* C5: save_sale is rejected for insufficient stock exactly when some line's
\* quantity is strictly greater than the stock persisted at commit time, and
\* the error carries the available stock and the requested quantity of an
\* offending line's product.
C5_RejectedIffExceedsPersistedStock ==
    \A t \in Terminals :
        Returned(t) =>
            /\ (Outcome(t).kind = "InsufficientStock") <=> (Offending(cart[t], Before(t).stock) # {})
            /\ (Outcome(t).kind = "InsufficientStock") =>
                  \E i \in Offending(cart[t], Before(t).stock) :
                      /\ Outcome(t).product = cart[t][i].id
                      /\ Outcome(t).available = Before(t).stock[cart[t][i].id]
                      /\ Outcome(t).requested = cart[t][i].qty

\* C5 witness: a line of two units is rejected against a persisted stock of one
C5_Witness ==
    /\ Returned(1)
    /\ Outcome(1).kind = "InsufficientStock"
    /\ Outcome(1).requested = 2
    /\ Outcome(1).available = 1

\* C6: the stock check and the decrement of one commit are inseparable with
\* respect to other writers: what the check found still holds when the
\* decrement is made, and two commits never take a stock below zero.
C6_CheckAndDecrementInseparable ==
    /\ \A p \in Products : db.stock[p] >= 0
    /\ \A t \in Terminals :
          pc[t] = "update_stock" =>
              tx.stock[cart[t][sv[t].i].id] >= cart[t][sv[t].i].qty

\* C7: no two Sale rows have the same receipt number.
C7_ReceiptNumbersUnique ==
    \A j, k \in 1 .. Len(db.sales) :
        j # k => db.sales[j].receipt_number # db.sales[k].receipt_number

\* C7 witness: a commit in the second of a stored sale drew the same suffix
\* and was refused
C7_Witness ==
    /\ Returned(1)
    /\ Outcome(1).kind = "IntegrityError"
    /\ ReceiptTaken(db.sales, sv[1].receipt_number)

\* C8: a commit fails on a receipt-number collision only after three
\* generated numbers have collided.
C8_RetriesBeforeFailing ==
    \A t \in Terminals :
        (Returned(t) /\ Outcome(t).kind = "IntegrityError") => sv[t].attempts >= 3

\* C9: a sale is committed only with paid >= total: no call of save_sale is
\* made with less, and every Sale row has paid >= total and
\* change_amount = paid - total >= 0.
C9_PaidCoversTotal ==
    /\ \A t \in Terminals : InSave(t) => sv[t].paid >= pay[t].total
    /\ \A k \in 1 .. Len(db.sales) :
          /\ db.sales[k].paid >= db.sales[k].total
          /\ db.sales[k].change_amount = db.sales[k].paid - db.sales[k].total
          /\ db.sales[k].change_amount >= 0

\* C9 witness: a sale paid with more than its total has been committed
C9_Witness ==
    /\ Returned(1)
    /\ Outcome(1).status = "Committed"
    /\ db.sales[Len(db.sales)].change_amount > 0

\* C10: a commit with an empty cart is rejected, and no Sale row is without
\* a SaleItem row.
C10_NoSaleWithoutItems ==
    /\ \A t \in Terminals : (Returned(t) /\ cart[t] = <<>>) => Outcome(t).status = "Rejected"
    /\ \A k \in 1 .. Len(db.sales) :
          \E j \in 1 .. Len(db.sale_items) : db.sale_items[j].sale_id = db.sales[k].id

\* C11: the discount applied to a sale never exceeds the subtotal: every
\* computed display and every persisted Sale row has discount <= subtotal and
\* total >= 0.
C11_DiscountNeverExceedsSubtotal ==
    /\ \A t \in Terminals :
          ~totals[t].nan =>
              totals[t].discount <= totals[t].subtotal /\ totals[t].total >= 0
    /\ \A k \in 1 .. Len(db.sales) :
          db.sales[k].discount <= db.sales[k].subtotal /\ db.sales[k].total >= 0

\* C12: in every persisted Sale row, in cents, total = subtotal - discount +
\* tax of the persisted fields, and change_amount = paid - total.
C12_PersistedMoneyIdentity ==
    \A k \in 1 .. Len(db.sales) :
        /\ db.sales[k].total = db.sales[k].subtotal - db.sales[k].discount + db.sales[k].tax
        /\ db.sales[k].change_amount = db.sales[k].paid - db.sales[k].total

\* the discount specifications the reference calculator is given: a flat
\* amount in cents, or a percentage in hundredths of a percent
DiscountSpecs ==
    {[text |-> <<"0">>, pct |-> FALSE, n |-> 0],
     [text |-> <<"1">>, pct |-> FALSE, n |-> 100],
     [text |-> <<"1", ".", "5">>, pct |-> FALSE, n |-> 150],
     [text |-> <<"1", "5">>, pct |-> FALSE, n |-> 1500],
     [text |-> <<"0", "%">>, pct |-> TRUE, n |-> 0],
     [text |-> <<"5", "%">>, pct |-> TRUE, n |-> 500],
     [text |-> <<"1", "5", "%">>, pct |-> TRUE, n |-> 1500],
     [text |-> <<"1", "0", "0", "%">>, pct |-> TRUE, n |-> 10000]}

\* the reference calculator, in 1/10000 cent
RECURSIVE RefCents(_)
RefCents(c) == IF c = <<>> THEN 0 ELSE c[1].price * c[1].qty + RefCents(Tail(c))
RefDiscount(c, d) == IF d.pct THEN RefCents(c) * d.n ELSE d.n * 10000
RefTax(c, d, taxp) == ((RefCents(c) * 10000 - RefDiscount(c, d)) * taxp) \div 100
RefTotal(c, d, taxp) == RefCents(c) * 10000 - RefDiscount(c, d) + RefTax(c, d, taxp)
\* the whole cents nearest to x (both neighbours of an exact half)
Nearest(x) ==
    {n \in (x \div 10000) .. (x \div 10000 + 1) :
        2 * (IF x > n * 10000 THEN x - n * 10000 ELSE n * 10000 - x) <= 10000}

\* C13: after every failed commit attempt (insufficient payment in the
\* dialog, insufficient stock, a persistence error) the cart, its quantities
\* and price snapshots are exactly as before the attempt: the step that
\* refuses a payment leaves the cart alone, and when save_sale has raised the
\* cart is the one the attempt started with and complete_sale leaves it so.
C13_FailedCommitKeepsCart ==
    [][\A t \in Terminals :
          /\ (sv'[t] # sv[t] /\ sv'[t].result.kind = "InsufficientPayment") =>
                 cart'[t] = cart[t] /\ cart[t] = sv'[t].cart0
          /\ (Returned(t) /\ Failed(Outcome(t))) =>
                 cart[t] = sv[t].cart0 /\ cart'[t] = cart[t]]_vars

\* C13 witness: save_sale has refused a two-line cart for lack of stock and
\* the cart still holds both lines
C13_Witness ==
    /\ Returned(1)
    /\ Outcome(1).kind = "InsufficientStock"
    /\ Len(cart[1]) = 2
    /\ cart[1][1].qty = MaxQty

\* C14: committing twice in a row with the same unmodified cart that fails
\* the stock validation, against unchanged persisted state, gives the same
\* error both times, and neither call changes the sales table, the
\* sale_items table or any stock.
C14_RepeatedRejectionIsIdempotent ==
    \A t \in Terminals :
        /\ (Returned(t) /\ Outcome(t).status = "Rejected") => db = Before(t)
        /\ (Returned(t) /\ sv[t].prev.status = "Rejected") =>
               /\ Outcome(t) = sv[t].prev
               /\ db = Before(t)

\* C14 witness: the second call in a row has been refused for the second
\* line of a two-line cart, as the first call was
C14_Witness ==
    /\ Returned(1)
    /\ Len(cart[1]) = 2
    /\ sv[1].prev.kind = "InsufficientStock"
    /\ Outcome(1).kind = "InsufficientStock"
    /\ Outcome(1).product = cart[1][2].id

\* C15: save_sale never modifies the cart it is given, on success or on
\* failure: from its first statement until it has returned or raised, the
\* cart's lines, quantities and prices are those it was called with (the
\* cart is cleared afterwards, by complete_sale).
C15_SaveSaleLeavesCart ==
    \A t \in Terminals : InSave(t) => cart[t] = sv[t].cart0

\* C15 witness: save_sale has committed a sale and the cart it was given
\* still holds its lines
C15_Witness ==
    /\ Returned(1)
    /\ Outcome(1).status = "Committed"
    /\ Len(db.sale_items) > Len(Before(1).sale_items)
    /\ cart[1] # <<>>

\* table `later' still holds every row of table `earlier', unchanged
KeepsRows(earlier, later) ==
    /\ Len(later) >= Len(earlier)
    /\ SubSeq(later, 1, Len(earlier)) = earlier
\* a step in which a backup is restored
RestoreStep == \E t \in Terminals, backup_file_path \in Backups : restore_backup(t, backup_file_path)

\* C16 as stated: sales are append-only; every step of the application keeps
\* every committed Sale row and SaleItem row with identical field values.
C16_SalesAppendOnly ==
    [][KeepsRows(db.sales, db'.sales) /\ KeepsRows(db.sale_items, db'.sale_items)]_vars

\* C16 amended: every step of the application other than the restore of a
\* backup keeps every committed Sale row and SaleItem row with identical
\* field values; restoring a backup replaces the whole database file with
\* the earlier copy.
C16_SalesAppendOnlyExceptRestore ==
    [][/\ ~RestoreStep =>
             KeepsRows(db.sales, db'.sales) /\ KeepsRows(db.sale_items, db'.sale_items)
       /\ RestoreStep => db' \in Backups]_vars

\* C16 witness: a second sale has been committed and the sale stored before
\* it is still the first row of both tables
C16_Witness ==
    /\ Returned(1)
    /\ Outcome(1).status = "Committed"
    /\ Len(db.sales) = 2
    /\ db.sales[1] = EarlierDb.sales[1]
    /\ db.sale_items[1] = EarlierDb.sale_items[1]

\* the sale_items rows of sale sale_id, in insertion order
ItemsOf(sale_id) == SelectSeq(db.sale_items, LAMBDA row : row.sale_id = sale_id)

\* C17: a successful commit inserts exactly one SaleItem row per cart line,
\* whose quantity is the line's quantity, whose unit price is the price the
\* line took when it was added to the cart, whatever the catalog price is at
\* commit time, and whose line total is quantity times unit price.
C17_OneItemPerLineAtSnapshotPrice ==
    \A t \in Terminals :
        (Returned(t) /\ Outcome(t).status = "Committed") =>
            LET items == ItemsOf(Outcome(t).sale_id)
                lines == sv[t].cart0
            IN  /\ Len(db.sale_items) = Len(Before(t).sale_items) + Len(lines)
                /\ Len(items) = Len(lines)
                /\ \A i \in 1 .. Len(lines) :
                      /\ items[i].product_id = lines[i].id
                      /\ items[i].quantity = lines[i].qty
                      /\ items[i].unit_price = lines[i].price
                      /\ items[i].total_price = lines[i].qty * lines[i].price

\* C17 witness: a line added at the old price has been committed after the
\* catalog price of its product was raised
C17_Witness ==
    /\ Returned(1)
    /\ Outcome(1).status = "Committed"
    /\ Len(cart[1]) = 2
    /\ cart[1][1].qty = 2
    /\ db.price[cart[1][1].id] = cart[1][1].price + PriceStep
    /\ ItemsOf(Outcome(1).sale_id)[1].unit_price = cart[1][1].price

\* terminal t is inside save_sale, which has neither returned nor raised
InProgress(t) == InSave(t) /\ ~Returned(t)

\* how save_sale has ended: with the sale, its items and the stock decrements
\* all persisted, or refused by the stock check before anything was written,
\* or failed with everything rolled back
EndedInOneOutcome(t) ==
    /\ Outcome(t).status \in {"Committed", "Rejected", "Aborted"}
    /\ Outcome(t).status = "Committed" => db = FullyApplied(t) /\ sv[t].failed_at = ""
    /\ Outcome(t).status = "Rejected" => db = Before(t) /\ sv[t].failed_at = "check"
    /\ Outcome(t).status = "Aborted" => db = Before(t) /\ sv[t].failed_at # "check"
    /\ tx = NoTx /\ lock = 0

\* C18: every commit attempt ends in exactly one of Committed (sale, items
\* and stock decrements all persisted), Rejected (refused before any write)
\* or Aborted (persistence failure, everything rolled back); a commit never
\* remains in progress, and Rejected is never reached after a write.
C18_CommitEndsInOneOutcome ==
    /\ [](\A t \in Terminals : Returned(t) => EndedInOneOutcome(t))
    /\ [](\A t \in Terminals : InProgress(t) => Outcome(t) = NoResult)
    /\ (InProgress(1) ~> Returned(1))

\* C18 witness: the commit itself failed after every row had been written,
\* and save_sale has ended Aborted
C18_Witness ==
    /\ Returned(1)
    /\ Outcome(1).status = "Aborted"
    /\ sv[1].failed_at = "commit"
    /\ cart[1] # <<>>

\* C19: for every cart, discount specification and tax percentage the
\* displayed amounts are the reference calculator's: subtotal = sum of unit
\* price x quantity, discount = the flat amount or subtotal x percentage /
\* 100, tax = (subtotal - discount) x taxPercent / 100, total = subtotal -
\* discount + tax, each rounded to cents.
C19_CalculatorMatchesReference ==
    \A d \in DiscountSpecs :
        (discount_var[1] = d.text /\ totals[1] # ZeroTotals) =>
            /\ ~totals[1].nan
            /\ totals[1].subtotal = RefCents(cart[1])
            /\ totals[1].discount \in Nearest(RefDiscount(cart[1], d))
            /\ totals[1].tax \in Nearest(RefTax(cart[1], d, tax_percent[1]))
            /\ totals[1].total \in Nearest(RefTotal(cart[1], d, tax_percent[1]))

\* C19 witness: Headphones with "5%" and 5 % tax: 29.99 - 1.50 + 1.42 = 29.92
C19_Witness ==
    /\ discount_var[1] = <<"5", "%">>
    /\ tax_percent[1] = 5
    /\ cart[1] = <<[id |-> 1, name |-> Name[1], price |-> HeadphonesPrice, qty |-> 1]>>
    /\ totals[1] = [subtotal |-> 2999, discount |-> 150, tax |-> 142, total |-> 2992,
                    nan |-> FALSE]

\* the grammar of a discount specification: a decimal number, optionally
\* signed, optionally followed by "%"
IsDecimalText(s) ==
    /\ \A i \in 1 .. Len(s) : s[i] \in {"0", "1", "5", "."}
    /\ Cardinality({i \in 1 .. Len(s) : s[i] = "."}) <= 1
    /\ \E i \in 1 .. Len(s) : s[i] # "."
IsPercentText(s) == s # <<>> /\ s[Len(s)] = "%"
NumberPart(s) == IF IsPercentText(s) THEN SubSeq(s, 1, Len(s) - 1) ELSE s
IsNegativeText(s) == NumberPart(s) # <<>> /\ Head(NumberPart(s)) = "-"
WellFormedText(s) ==
    IsDecimalText(IF IsNegativeText(s) THEN Tail(NumberPart(s)) ELSE NumberPart(s))

\* C20: parse_discount never fails, and an empty or malformed text, a
\* negative flat amount and a percentage below 0 or above 100 each give a
\* discount of exactly 0, while 0% and 100% are accepted.
C20_ParseDiscountFallsBackToZero ==
    totals[1] # ZeroTotals =>
        LET text == discount_var[1]
        IN  /\ ~totals[1].nan
            /\ ~WellFormedText(text) => totals[1].discount = 0
            /\ (WellFormedText(text) /\ IsNegativeText(text)) => totals[1].discount = 0
            /\ text = <<"1", "0", "1", "%">> => totals[1].discount = 0
            /\ text = <<"0", "%">> => totals[1].discount = 0
            /\ text = <<"1", "0", "0", "%">> => totals[1].discount = totals[1].subtotal

(* --------------------------- cart properties --------------------------- *)
\* the cart d is what the cart c becomes when a product with this id, name,
\* price and stock value is added
AddedAsSpecified(c, d, id, name, price, stock) ==
    IF \E i \in 1 .. Len(c) : c[i].id = id
    THEN \E i \in 1 .. Len(c) :
            /\ c[i].id = id
            /\ \A j \in 1 .. Len(c) : c[j].id = id => i <= j
            /\ IF c[i].qty + 1 <= stock
               THEN /\ Len(d) = Len(c)
                    /\ d[i] = [id |-> c[i].id, name |-> c[i].name, price |-> c[i].price,
                               qty |-> c[i].qty + 1]
                    /\ \A j \in 1 .. Len(c) : j # i => d[j] = c[j]
               ELSE d = c
    ELSE IF stock > 0
    THEN /\ Len(d) = Len(c) + 1
         /\ d[Len(d)] = [id |-> id, name |-> name, price |-> price, qty |-> 1]
         /\ \A j \in 1 .. Len(c) : d[j] = c[j]
    ELSE d = c

\* C21: add_to_cart(product) increments the quantity of the product's line
\* by 1 only when the result does not exceed the stock carried by the
\* product passed in, appends a new line with quantity 1 and the product's
\* current price when the product is not in the cart and that stock is
\* > 0, leaves the cart unchanged otherwise, and modifies no other line.
C21_AddToCart ==
    \A p \in Products, s \in -1 .. MaxStock + 1 :
        AddedAsSpecified(cart[1],
                         CartAfterAdd(cart[1], [id |-> p, name |-> db.name[p],
                                                price |-> db.price[p], stock |-> s]),
                         p, db.name[p], db.price[p], s)
\* a line at its stock limit next to another line: adding the first product
\* again is refused, adding with a larger stock value increments
C21_Witness ==
    /\ Len(cart[1]) = 2
    /\ cart[1][1].id = 1 /\ cart[1][1].qty = 2
    /\ cart[1][2].id = 2 /\ cart[1][2].qty = 1

\* the quantity dialog closes on the line at sv[1].i with this result
ResultApplied(result) ==
    IF result = 0
    THEN cart'[1] = RemoveAt(cart[1], sv[1].i)
    ELSE /\ Len(cart'[1]) = Len(cart[1])
         /\ cart'[1][sv[1].i].qty = result
         /\ cart'[1][sv[1].i].id = cart[1][sv[1].i].id
         /\ cart'[1][sv[1].i].name = cart[1][sv[1].i].name
         /\ cart'[1][sv[1].i].price = cart[1][sv[1].i].price
         /\ \A j \in 1 .. Len(cart[1]) : j # sv[1].i => cart'[1][j] = cart[1][j]

C23_QuantitiesAtLeastOne ==
    \A i \in 1 .. Len(cart[1]) : cart[1][i].qty \in Int /\ cart[1][i].qty >= 1
\* a sale was committed and a held cart of two lines resumed
C23_Witness ==
    /\ commits = 1
    /\ db.held_seq = 1 /\ db.held_carts = <<>>
    /\ Len(cart[1]) = 2

\* C24: no two lines of the in-memory cart reference the same product, so
\* the per-line stock check of save_sale keeps every product's stock at or
\* above zero: no more of a product is sold than there was.
C24_OneLinePerProduct ==
    /\ \A i, j \in 1 .. Len(cart[1]) : cart[1][i].id = cart[1][j].id => i = j
    /\ \A p \in Products : db.stock[p] >= 0 /\ (lock # 0 => tx.stock[p] >= 0)
\* two lines in the cart after two holds and resumes
C24_Witness ==
    /\ Len(cart[1]) = 2
    /\ db.held_seq >= 2

\* C26: resuming held cart h makes the in-memory cart h's lines and
\* deletes h's record; a held-cart id that has left the list never comes
\* back, so a held cart is resumed at most once.
C26_ResumeConsumes ==
    [][/\ \A h \in 1 .. MaxHeldSeq :
             resume_cart(1, h) =>
                /\ cart'[1] = json_loads(HeldRow(db, h).cart_data)
                /\ h \notin HeldIds(db')
       /\ \A h \in 1 .. db.held_seq : h \notin HeldIds(db) => h \notin HeldIds(db')]_vars
\* the first held cart was resumed and a second one is held
C26_Witness ==
    /\ db.held_seq = 2
    /\ HeldIds(db) = {2}
    /\ cart[1] # <<>>

\* C27: holding a non-empty cart empties the in-memory cart and stores its
\* lines; the stored lines stay as they are, and resuming the held cart
\* makes the in-memory cart exactly those lines, in order, with the same
\* ids, names, prices and quantities, whatever the cart was before.
C27_HoldResumeRoundTrip ==
    [][/\ hold_cart(1) =>
             /\ cart'[1] = <<>>
             /\ db'.held_carts # <<>>
             /\ json_loads(db'.held_carts[Len(db'.held_carts)].cart_data) = cart[1]
       /\ \A h \in HeldIds(db) \cap HeldIds(db') : HeldRow(db', h) = HeldRow(db, h)
       /\ \A h \in 1 .. MaxHeldSeq :
             resume_cart(1, h) => cart'[1] = json_loads(HeldRow(db, h).cart_data)]_vars
\* a cart of two lines, the second product first, is back after a resume
C27_Witness ==
    /\ db.held_seq = 1 /\ db.held_carts = <<>>
    /\ Len(cart[1]) = 2
    /\ cart[1][1].id = 2 /\ cart[1][1].qty = 2
    /\ cart[1][2].id = 1

\* the sum of the line totals of the sale_items rows of sale id
ItemsTotal(id) ==
    LET items == ItemsOf(id)
    IN  SumSeq([k \in 1 .. Len(items) |-> items[k].total_price])

\* C25: every persisted Sale row's subtotal equals the sum of the line
\* totals of its own SaleItem rows, whatever the operator does, also while
\* the payment dialog is open.
C25_SubtotalMatchesItems ==
    \A k \in 1 .. Len(db.sales) : db.sales[k].subtotal = ItemsTotal(db.sales[k].id)

\* C29: a committed Sale row references the customer selected at the time
\* of the commit, and no customer exactly when the sale is a walk-in sale;
\* a held cart references the customer selected when it was held.
C29_CustomerRecorded ==
    [][/\ save_sale_commit(1) =>
             db'.sales[Len(db'.sales)].customer_id = selected_customer[1]
       /\ hold_cart(1) =>
             db'.held_carts[Len(db'.held_carts)].customer_id = selected_customer[1]]_vars

\* C28: what get_sale_details reads back for a committed sale (each item's
\* product name, unit price and line total, and the number of items) is the
\* same in every later state, also after the product is renamed, repriced
\* or deactivated.
C28_SaleDetailsStable ==
    [][\A k \in 1 .. Len(db.sales) :
          get_sale_details(db', db.sales[k].id) = get_sale_details(db, db.sales[k].id)]_vars

\* C30: a value written by save_settings is the value load_settings returns
\* after the application is restarted: starting the application (init_db)
\* never overwrites an existing setting.
C30_SettingsSurviveRestart ==
    [][restart(1) => load_settings(db') = load_settings(db)]_vars

====
